---- MODULE Spec2Model ----
(***************************************************************************)
(* Model of src/src/dpiObjectType.c: the object type layer of ODPI-C.      *)
(*                                                                         *)
(* The state is the heap of reference counted handles (one connection,     *)
(* object types, objects, attributes), the set of open OCI describe        *)
(* handles and, as history, the steps of the last public call.  Every      *)
(* public function is one action; the functions it calls are operators     *)
(* that map a heap to a heap, written in the order of the C statements.    *)
(* An OCI call, an allocation or a reference count change that can fail    *)
(* fails when the injected fault f names its step (and, for the recursive  *)
(* describe, its nesting level).                                           *)
(***************************************************************************)
EXTENDS Integers, Sequences, FiniteSets, TLC

\* ------------------------------------------------------------------ bounds
\* slots of the object type arena (a handle is a slot, never reused)
MaxTypes == 3
\* slots of the object arena
MaxObjs == 1
\* slots of the attribute arena
MaxAttrs == 2
\* references to object types the caller owns at one time
MaxHeld == 2
\* largest array size the caller passes to getAttributes
MaxCap == 3

TypeIds == 1..MaxTypes
ObjIds == 1..MaxObjs
AttrIds == 1..MaxAttrs
\* the connection handle the object types are looked up on
TheConn == "conn"

\* -------------------------------------------------- the server's catalogue
\* The types the describe service knows; a describe parameter is one of
\* these names.  DPI_SQLT_NCO is the type code of a named collection.
DPI_SQLT_NCO == "NCO"
DPI_SQLT_NTY == "NTY"
TypeNames == {"PERSON_T", "EMPTY_T", "INT_LIST_T", "PERSON_LIST_T", "LIST_LIST_T"}
Catalog(n) ==
    CASE n = "PERSON_T"      -> [typeCode |-> DPI_SQLT_NTY, numAttributes |-> 2,
                                 elemKind |-> "NONE", elemType |-> "NONE"]
      [] n = "EMPTY_T"       -> [typeCode |-> DPI_SQLT_NTY, numAttributes |-> 0,
                                 elemKind |-> "NONE", elemType |-> "NONE"]
      [] n = "INT_LIST_T"    -> [typeCode |-> DPI_SQLT_NCO, numAttributes |-> 0,
                                 elemKind |-> "NUMBER", elemType |-> "NONE"]
      [] n = "PERSON_LIST_T" -> [typeCode |-> DPI_SQLT_NCO, numAttributes |-> 0,
                                 elemKind |-> "OBJECT", elemType |-> "PERSON_T"]
      [] n = "LIST_LIST_T"   -> [typeCode |-> DPI_SQLT_NCO, numAttributes |-> 0,
                                 elemKind |-> "OBJECT", elemType |-> "PERSON_LIST_T"]
      [] n = "SELF_LIST_T"   -> [typeCode |-> DPI_SQLT_NCO, numAttributes |-> 0,
                                 elemKind |-> "OBJECT", elemType |-> "SELF_LIST_T"]
\* a schema the server is not known to refuse: a collection whose element
\* type is the collection itself
CyclicNames == {"SELF_LIST_T"}
RECURSIVE Depth(_)
\* object types a describe of n creates
Depth(n) ==
    IF Catalog(n).elemKind = "OBJECT" THEN 1 + Depth(Catalog(n).elemType) ELSE 1

\* ------------------------------------------------------------------- state
VARIABLES
    conn,    \* the connection handle: [tag, refCount]
    types,   \* TypeIds -> dpiObjectType
    objs,    \* ObjIds -> dpiObject
    attrs,   \* AttrIds -> dpiObjectAttr: the attributes the last call created
    desc,    \* the OCI describe handles: [open, bad]
    log,     \* the steps of the last public call, in order
    held,    \* the references the caller owns: [conn, types, objs]
    last     \* the last public call: its arguments and what it returned
vars == <<conn, types, objs, attrs, desc, log, held, last>>

\* zeroed storage of each kind (dpiGen__allocate uses calloc)
NoType == [tag |-> "NONE", refCount |-> 0, conn |-> "NULL",
           elementTypeInfo |-> [oracleTypeNum |-> "NONE", objectType |-> 0],
           schema |-> "NULL", name |-> "NULL", tdo |-> "NULL",
           typeCode |-> "NONE", numAttributes |-> 0, isCollection |-> FALSE]
NoObj == [tag |-> "NONE", refCount |-> 0, type |-> 0, instance |-> FALSE,
          indicator |-> FALSE]
NoAttr == [tag |-> "NONE", refCount |-> 0, belongsToType |-> 0, pos |-> 0]
\* storage given back with free(): the tag no longer checks
FreedOf(z) == [z EXCEPT !.tag = "FREED"]

NoFault == [level |-> 0, step |-> "none"]
\* the caller's array, indexed from 0 as in the code; 0 is the entry as the
\* caller passed it
NoArray == [i \in 0..(MaxCap - 1) |-> 0]
NoInfo == [name |-> "NULL", schema |-> "NULL", isCollection |-> FALSE,
           elementTypeInfo |-> NoType.elementTypeInfo, numAttributes |-> 0]

\* The heap a call starts from.  attrs holds the attributes the last call
\* created (they are the caller's from then on, and no call reads them), so
\* every call starts with that arena empty, as it starts with an empty log.
Heap == [conn |-> conn, types |-> types, objs |-> objs,
         attrs |-> [a \in AttrIds |-> NoAttr], desc |-> desc, log |-> <<>>]
Store(S) ==
    /\ conn' = S.conn
    /\ types' = S.types
    /\ objs' = S.objs
    /\ attrs' = S.attrs
    /\ desc' = S.desc
    /\ log' = S.log

Log(S, e) == [S EXCEPT !.log = Append(@, e)]
Call(S, name, a) == Log(S, [ev |-> "call", name |-> name, arg |-> a])
\* a failing call whose result is not looked at
Fails_ignored(f, lvl, step) == FALSE

\* the call step made at nesting level lvl returns a failure
Fails(f, lvl, step) == f.level = lvl /\ f.step = step

\* first slot of an arena that was never handed out, 0 when there is none
FreeSlot(arena, ids) ==
    IF \E i \in ids : arena[i].tag = "NONE"
    THEN CHOOSE i \in ids : arena[i].tag = "NONE" /\ \A j \in ids : j < i => arena[j].tag # "NONE"
    ELSE 0
FreeSlots(arena, ids) == Cardinality({i \in ids : arena[i].tag = "NONE"})

\* ------------------------------------------------- generic handle registry
GetH(S, kind, h) ==
    CASE kind = "CONN"        -> S.conn
      [] kind = "OBJECT_TYPE" -> S.types[h]
      [] kind = "OBJECT"      -> S.objs[h]
      [] kind = "ATTR"        -> S.attrs[h]
PutH(S, kind, h, r) ==
    CASE kind = "CONN"        -> [S EXCEPT !.conn = r]
      [] kind = "OBJECT_TYPE" -> [S EXCEPT !.types[h] = r]
      [] kind = "OBJECT"      -> [S EXCEPT !.objs[h] = r]
      [] kind = "ATTR"        -> [S EXCEPT !.attrs[h] = r]
ZeroOf(kind) ==
    CASE kind = "OBJECT_TYPE" -> NoType
      [] kind = "OBJECT"      -> NoObj
      [] kind = "ATTR"        -> NoAttr
ArenaOf(S, kind) ==
    CASE kind = "OBJECT_TYPE" -> S.types
      [] kind = "OBJECT"      -> S.objs
      [] kind = "ATTR"        -> S.attrs
IdsOf(kind) ==
    CASE kind = "OBJECT_TYPE" -> TypeIds
      [] kind = "OBJECT"      -> ObjIds
      [] kind = "ATTR"        -> AttrIds

\* the handle check every entry point makes: the tag is that of the kind
dpiGen__checkHandle(S, kind, h) == GetH(S, kind, h).tag = kind

\* zeroed storage tagged with the kind, reference count 1
dpiGen__allocate(S, kind, lvl, f) ==
    LET h == FreeSlot(ArenaOf(S, kind), IdsOf(kind))
        S1 == Call(S, "dpiGen__allocate", kind)
    IN  IF Fails(f, lvl, "allocate") \/ h = 0
        THEN [S |-> S1, rc |-> "AllocationError", out |-> 0]
        ELSE [S |-> PutH(S1, kind, h, [ZeroOf(kind) EXCEPT !.tag = kind, !.refCount = 1]),
              rc |-> "SUCCESS", out |-> h]

\* free() of a handle's storage
FreeStorage(S, kind, h) ==
    Log(PutH(S, kind, h, FreedOf(ZeroOf(kind))), [ev |-> "free", kind |-> kind, h |-> h])

RECURSIVE dpiGen__setRefCount(_, _, _, _)
RECURSIVE dpiObjectType__free(_, _)
RECURSIVE dpiObject__free(_, _)

\* the connection's destructor: the connection is torn down
dpiConn__free(S) ==
    Log([S EXCEPT !.conn = [tag |-> "FREED", refCount |-> 0]],
        [ev |-> "free", kind |-> "CONN", h |-> TheConn])

dpiObjectAttr__free(S, a) == FreeStorage(S, "ATTR", a)

\* dpiObjectType__free without giving back the connection reference
ReleaseConn_kept(S, t) == S

\* dpiObjectType__free: the connection reference
ReleaseConn(S, t) ==
    LET c == S.types[t].conn
    IN  IF c # "NULL"
        THEN [dpiGen__setRefCount(Log(S, [ev |-> "freeRef", field |-> "conn", h |-> t]),
                                  "CONN", c, -1)
                 EXCEPT !.types[t].conn = "NULL"]
        ELSE S

\* dpiObjectType__free without giving back the element type reference
ReleaseElementType_kept(S, t) == S

\* dpiObjectType__free: the reference to the element's object type
ReleaseElementType(S, t) ==
    LET e == S.types[t].elementTypeInfo.objectType
    IN  IF e # 0
        THEN [dpiGen__setRefCount(Log(S, [ev |-> "freeRef", field |-> "elementType", h |-> t]),
                                  "OBJECT_TYPE", e, -1)
                 EXCEPT !.types[t].elementTypeInfo.objectType = 0]
        ELSE S

\* dpiObjectType__free: the schema and name strings
FreeNames(S, t) ==
    LET S1 == IF S.types[t].schema # "NULL"
              THEN Log([S EXCEPT !.types[t].schema = "NULL"],
                       [ev |-> "freeString", field |-> "schema", h |-> t])
              ELSE S
    IN  IF S1.types[t].name # "NULL"
        THEN Log([S1 EXCEPT !.types[t].name = "NULL"],
                 [ev |-> "freeString", field |-> "name", h |-> t])
        ELSE S1

\* the destructor releasing the element type before the connection
dpiObjectType__free_elementFirst(S, t) ==
    FreeStorage(FreeNames(ReleaseConn(ReleaseElementType(S, t), t), t), "OBJECT_TYPE", t)

dpiObjectType__free(S, t) ==
    FreeStorage(FreeNames(ReleaseElementType(ReleaseConn(S, t), t), t), "OBJECT_TYPE", t)

\* an object's destructor gives back its reference to the object type
dpiObject__free(S, o) ==
    LET t == S.objs[o].type
        S1 == IF t # 0
              THEN [dpiGen__setRefCount(S, "OBJECT_TYPE", t, -1) EXCEPT !.objs[o].type = 0]
              ELSE S
    IN  FreeStorage(S1, "OBJECT", o)

dpiGen__freeProc(S, kind, h) ==
    CASE kind = "CONN"        -> dpiConn__free(S)
      [] kind = "OBJECT_TYPE" -> dpiObjectType__free(S, h)
      [] kind = "OBJECT"      -> dpiObject__free(S, h)
      [] kind = "ATTR"        -> dpiObjectAttr__free(S, h)

\* adjust the count; at zero the tag is cleared and the destructor runs
dpiGen__setRefCount(S, kind, h, delta) ==
    LET r == GetH(S, kind, h)
        n == r.refCount + delta
        S1 == Log(S, [ev |-> "setRefCount", kind |-> kind, h |-> h, delta |-> delta])
        S2 == PutH(S1, kind, h,
                   [r EXCEPT !.refCount = n, !.tag = IF n = 0 THEN "FREED" ELSE @])
    IN  IF n = 0 THEN dpiGen__freeProc(S2, kind, h) ELSE S2

dpiGen__startPublicFn(S, kind, h) ==
    IF dpiGen__checkHandle(S, kind, h) THEN "SUCCESS" ELSE "InvalidHandle"

dpiGen__addRef(S, kind, h) ==
    IF ~dpiGen__checkHandle(S, kind, h)
    THEN [S |-> S, rc |-> "InvalidHandle"]
    ELSE [S |-> dpiGen__setRefCount(S, kind, h, 1), rc |-> "SUCCESS"]

dpiGen__release(S, kind, h) ==
    IF ~dpiGen__checkHandle(S, kind, h)
    THEN [S |-> S, rc |-> "InvalidHandle"]
    ELSE [S |-> dpiGen__setRefCount(S, kind, h, -1), rc |-> "SUCCESS"]

\* ------------------------------------------------------ OCI describe handles
\* dpiOci__handleAlloc(DPI_OCI_HTYPE_DESCRIBE): a handle that is not open
NewDesc(S) == CHOOSE d \in 1..(Cardinality(S.desc.open) + 1) : d \notin S.desc.open
dpiOci__handleAlloc(S, d) ==
    Log([S EXCEPT !.desc.open = @ \cup {d}], [ev |-> "handleAlloc", h |-> d])
\* dpiOci__handleFree: freeing a handle that is not open is a double free
dpiOci__handleFree(S, d) ==
    Log([S EXCEPT !.desc.open = @ \ {d},
                  !.desc.bad = @ \/ d \notin S.desc.open],
        [ev |-> "handleFree", h |-> d])

\* --------------------------------------------------- describing object types
Err(S, rc) == [S |-> S, rc |-> rc]
Ok(S) == [S |-> S, rc |-> "SUCCESS"]

RECURSIVE dpiObjectType__allocate(_, _, _, _, _, _)

\* Type information of a collection's element; an element that is itself an
\* object type gets an object type of its own, looked up by its type name.
dpiOracleType__populateTypeInfo(S, t, lvl, f) ==
    LET def == Catalog(S.types[t].tdo)
        S1 == Call(S, "populateTypeInfo", t)
    IN  IF Fails(f, lvl, "populateTypeInfo")
        THEN Err(S1, "ExternalServiceError")
        ELSE LET S2 == [S1 EXCEPT !.types[t].elementTypeInfo.oracleTypeNum = def.elemKind]
             IN  IF def.elemKind = "OBJECT"
                 THEN LET R == dpiObjectType__allocate(S2, S2.types[t].conn, def.elemType,
                                                       "TYPE_NAME", lvl + 1, f)
                      IN  [S |-> [R.S EXCEPT !.types[t].elementTypeInfo.objectType = R.out],
                           rc |-> R.rc]
                 ELSE Ok(S2)

\* dpiObjectType__describe with a collection not marked as one
SetIsCollection_skipped(S, t) == S

\* dpiObjectType__describe: the type code is the one of a collection
SetIsCollection(S, t) == [S EXCEPT !.types[t].isCollection = TRUE]

dpiObjectType__describe(S, t, describeHandle, lvl, f) ==
    LET def == Catalog(S.types[t].tdo)
        S1 == Log(S, [ev |-> "call", name |-> "describeAny", arg |-> t,
                      tdo |-> S.types[t].tdo, handle |-> describeHandle])
    IN  IF Fails(f, lvl, "describeAny") THEN Err(S1, "ExternalServiceError") ELSE
        LET S2 == Call(S1, "getTopParam", t)
        IN  IF Fails(f, lvl, "getTopParam") THEN Err(S2, "ExternalServiceError") ELSE
        LET S3 == Call(S2, "getTypeCode", t)
        IN  IF Fails(f, lvl, "getTypeCode") THEN Err(S3, "ExternalServiceError") ELSE
        LET typeCode == def.typeCode
            S4 == Call([S3 EXCEPT !.types[t].typeCode = typeCode], "getNumAttrs", t)
        IN  IF Fails(f, lvl, "getNumAttrs") THEN Err(S4, "ExternalServiceError") ELSE
        LET S5 == [S4 EXCEPT !.types[t].numAttributes = def.numAttributes]
        IN  IF typeCode = DPI_SQLT_NCO
            THEN LET S6 == Call(SetIsCollection(S5, t), "getCollElem", t)
                 IN  IF Fails(f, lvl, "getCollElem")
                     THEN Err(S6, "ExternalServiceError")
                     ELSE dpiOracleType__populateTypeInfo(S6, t, lvl, f)
            ELSE Ok(S5)

\* dpiObjectType__init with the describe handle not freed when the describe fails
DescribeFailed_leak(S, describeHandle) == S

\* the failure branch of the describe in dpiObjectType__init
DescribeFailed(S, describeHandle) == dpiOci__handleFree(S, describeHandle)

dpiObjectType__init(S, t, param, nameAttribute, lvl, f) ==
    LET S1 == Call(S, "getSchema", t)
    IN  IF Fails(f, lvl, "getSchema") THEN Err(S1, "ExternalServiceError") ELSE
        LET S2 == Log([S1 EXCEPT !.types[t].schema = "SCHEMA"],
                      [ev |-> "call", name |-> "getName", arg |-> t, attr |-> nameAttribute])
        IN  IF Fails(f, lvl, "getName") THEN Err(S2, "ExternalServiceError") ELSE
        LET S3 == Call([S2 EXCEPT !.types[t].name = param], "getTdoRef", t)
        IN  IF Fails(f, lvl, "getTdoRef") THEN Err(S3, "ExternalServiceError") ELSE
        LET S4 == Call(S3, "objectPin", t)
        IN  IF Fails(f, lvl, "objectPin") THEN Err(S4, "ExternalServiceError") ELSE
        LET S5 == [S4 EXCEPT !.types[t].tdo = param]
        IN  IF Fails(f, lvl, "handleAlloc")
            THEN Err(Call(S5, "handleAllocFailed", t), "ExternalServiceError") ELSE
        LET describeHandle == NewDesc(S5)
            S6 == dpiOci__handleAlloc(S5, describeHandle)
            R == dpiObjectType__describe(S6, t, describeHandle, lvl, f)
        IN  IF R.rc # "SUCCESS"
            THEN Err(DescribeFailed(R.S, describeHandle), R.rc)
            ELSE Ok(dpiOci__handleFree(R.S, describeHandle))

\* dpiObjectType__allocate storing the connection without a reference to it
RetainConn_borrowed(S, c, t) == [S EXCEPT !.types[t].conn = c]

\* dpiObjectType__allocate: the reference to the connection, then the field
RetainConn(S, c, t) ==
    [dpiGen__setRefCount(S, "CONN", c, 1) EXCEPT !.types[t].conn = c]

dpiObjectType__allocate(S, c, param, nameAttribute, lvl, f) ==
    LET A == dpiGen__allocate(S, "OBJECT_TYPE", lvl, f)
        tempObjType == A.out
    IN  IF A.rc # "SUCCESS" THEN [S |-> A.S, rc |-> A.rc, out |-> 0] ELSE
        IF Fails(f, lvl, "connRef")
        THEN [S |-> dpiObjectType__free(Call(A.S, "connRefFailed", tempObjType), tempObjType),
              rc |-> "ExternalServiceError", out |-> 0] ELSE
        LET S1 == RetainConn(A.S, c, tempObjType)
            R == dpiObjectType__init(S1, tempObjType, param, nameAttribute, lvl, f)
        IN  IF R.rc # "SUCCESS"
            THEN [S |-> dpiObjectType__free(R.S, tempObjType), rc |-> R.rc, out |-> 0]
            ELSE [S |-> R.S, rc |-> "SUCCESS", out |-> tempObjType]

\* ------------------------------------------------ objects and attributes
\* a new object holds a counted reference to its object type
dpiObject__allocate(S, t, f) ==
    LET A == dpiGen__allocate(S, "OBJECT", 0, f)
        tempObj == A.out
    IN  IF A.rc # "SUCCESS" THEN A
        ELSE [S |-> [dpiGen__setRefCount(A.S, "OBJECT_TYPE", t, 1)
                        EXCEPT !.objs[tempObj].type = t],
              rc |-> "SUCCESS", out |-> tempObj]

\* a new attribute of object type t, built from the parameter at position pos
dpiObjectAttr__allocate(S, t, pos, lvl, f) ==
    LET A == dpiGen__allocate(S, "ATTR", lvl, f)
    IN  IF A.rc # "SUCCESS" THEN A
        ELSE [A EXCEPT !.S.attrs[A.out].belongsToType = t, !.S.attrs[A.out].pos = pos]

\* createObject freeing the new object's storage without its destructor
CreateFailed_storageOnly(S, tempObj) == FreeStorage(S, "OBJECT", tempObj)

\* createObject with the new object left behind when an OCI call fails
CreateFailed_leak(S, tempObj) == S

\* the failure branch of objectNew and objectGetInd in createObject
CreateFailed(S, tempObj) == dpiGen__setRefCount(S, "OBJECT", tempObj, -1)

\* createObject after its handle check
CreateObjectBody(S, t, f) ==
    IF Fails(f, 0, "ptrNull") THEN [S |-> S, rc |-> "NullPointer", out |-> 0] ELSE
    LET A == dpiObject__allocate(S, t, f)
        tempObj == A.out
    IN  IF A.rc # "SUCCESS" THEN [S |-> A.S, rc |-> A.rc, out |-> 0] ELSE
        LET S1 == Call(A.S, "objectNew", tempObj)
        IN  IF Fails(f, 0, "objectNew")
            THEN [S |-> CreateFailed(S1, tempObj),
                  rc |-> "ExternalServiceError", out |-> 0] ELSE
        LET S2 == Call([S1 EXCEPT !.objs[tempObj].instance = TRUE], "objectGetInd", tempObj)
        IN  IF Fails(f, 0, "objectGetInd")
            THEN [S |-> CreateFailed(S2, tempObj),
                  rc |-> "ExternalServiceError", out |-> 0]
            ELSE [S |-> [S2 EXCEPT !.objs[tempObj].indicator = TRUE],
                  rc |-> "SUCCESS", out |-> tempObj]

\* createObject without the check of its handle
dpiObjectType_createObject_unchecked(S, t, f) == CreateObjectBody(S, t, f)

dpiObjectType_createObject(S, t, f) ==
    IF dpiGen__startPublicFn(S, "OBJECT_TYPE", t) # "SUCCESS"
    THEN [S |-> S, rc |-> "InvalidHandle", out |-> 0]
    ELSE CreateObjectBody(S, t, f)

\* the attribute list read at the loop index itself
AttrPosition_zeroBased(i) == i

\* position in the attribute list of the attribute stored at array index i
AttrPosition(i) == i + 1

RECURSIVE AttrLoop(_, _, _, _, _, _)
\* the for loop of getAttributes from index i (0-based) on
AttrLoop(S, t, i, attributes, describeHandle, f) ==
    IF ~(i < S.types[t].numAttributes)
    THEN [S |-> S, rc |-> "SUCCESS", array |-> attributes, done |-> TRUE]
    ELSE LET S1 == Call(S, "paramGet", AttrPosition(i))
         IN  IF Fails(f, i + 1, "paramGet")
             THEN [S |-> dpiOci__handleFree(S1, describeHandle),
                   rc |-> "ExternalServiceError", array |-> attributes, done |-> FALSE]
             ELSE LET A == dpiObjectAttr__allocate(S1, t, AttrPosition(i), i + 1, f)
                  IN  IF A.rc # "SUCCESS"
                      THEN [S |-> dpiOci__handleFree(A.S, describeHandle),
                            rc |-> A.rc, array |-> attributes, done |-> FALSE]
                      ELSE AttrLoop(A.S, t, i + 1, [attributes EXCEPT ![i] = A.out],
                                    describeHandle, f)

\* the size test accepting an array one entry short
ArraySizeTooSmall_offByOne(numAttributes, typeNumAttributes) ==
    numAttributes + 1 < typeNumAttributes

\* the test of the caller's array size (numAttributes) against the object
\* type's attribute count
ArraySizeTooSmall(numAttributes, typeNumAttributes) == numAttributes < typeNumAttributes

\* the early return taken on the object type's attribute count instead
NothingToGet_byType(numAttributes, typeNumAttributes) == typeNumAttributes = 0

\* the early return: the caller's array has no entries
NothingToGet(numAttributes, typeNumAttributes) == numAttributes = 0

\* numAttributes is the size of the caller's array, attributes the array
dpiObjectType_getAttributes(S, t, numAttributes, attributes, f) ==
    IF dpiGen__startPublicFn(S, "OBJECT_TYPE", t) # "SUCCESS"
    THEN [S |-> S, rc |-> "InvalidHandle", array |-> attributes] ELSE
    IF Fails(f, 0, "ptrNull") THEN [S |-> S, rc |-> "NullPointer", array |-> attributes] ELSE
    IF ArraySizeTooSmall(numAttributes, S.types[t].numAttributes)
    THEN [S |-> S, rc |-> "ArraySizeTooSmall", array |-> attributes] ELSE
    IF NothingToGet(numAttributes, S.types[t].numAttributes)
    THEN [S |-> S, rc |-> "SUCCESS", array |-> attributes] ELSE
    IF Fails(f, 0, "handleAlloc")
    THEN [S |-> Call(S, "handleAllocFailed", t), rc |-> "ExternalServiceError",
          array |-> attributes] ELSE
    LET describeHandle == NewDesc(S)
        S1 == Log(dpiOci__handleAlloc(S, describeHandle),
                  [ev |-> "call", name |-> "describeAny", arg |-> t,
                   tdo |-> S.types[t].tdo, handle |-> describeHandle])
    IN  IF Fails(f, 0, "describeAny")
        THEN [S |-> dpiOci__handleFree(S1, describeHandle), rc |-> "ExternalServiceError",
              array |-> attributes] ELSE
        LET S2 == Call(S1, "getTopParam", t)
        IN  IF Fails(f, 0, "getTopParam")
            THEN [S |-> dpiOci__handleFree(S2, describeHandle), rc |-> "ExternalServiceError",
                  array |-> attributes] ELSE
        LET S3 == Call(S2, "getAttrList", t)
        IN  IF Fails(f, 0, "getAttrList")
            THEN [S |-> dpiOci__handleFree(S3, describeHandle), rc |-> "ExternalServiceError",
                  array |-> attributes] ELSE
        LET L == AttrLoop(S3, t, 0, attributes, describeHandle, f)
        IN  IF ~L.done
            THEN [S |-> L.S, rc |-> L.rc, array |-> L.array]
            ELSE [S |-> dpiOci__handleFree(L.S, describeHandle), rc |-> "SUCCESS",
                  array |-> L.array]

\* the fields getInfo copies to the caller's structure
InfoOf(S, t) ==
    [name |-> S.types[t].name, schema |-> S.types[t].schema,
     isCollection |-> S.types[t].isCollection,
     elementTypeInfo |-> S.types[t].elementTypeInfo,
     numAttributes |-> S.types[t].numAttributes]

\* getInfo taking a reference to the object type it reads
dpiObjectType_getInfo_retaining(S, t, f) ==
    IF dpiGen__startPublicFn(S, "OBJECT_TYPE", t) # "SUCCESS"
    THEN [S |-> S, rc |-> "InvalidHandle", info |-> NoInfo]
    ELSE [S |-> dpiGen__setRefCount(S, "OBJECT_TYPE", t, 1), rc |-> "SUCCESS",
          info |-> InfoOf(S, t)]

\* info is the caller's structure; a fault "ptrNull" is the caller passing
\* no structure
dpiObjectType_getInfo(S, t, f) ==
    IF dpiGen__startPublicFn(S, "OBJECT_TYPE", t) # "SUCCESS"
    THEN [S |-> S, rc |-> "InvalidHandle", info |-> NoInfo] ELSE
    IF Fails(f, 0, "ptrNull") THEN [S |-> S, rc |-> "NullPointer", info |-> NoInfo]
    ELSE [S |-> S, rc |-> "SUCCESS", info |-> InfoOf(S, t)]

dpiObjectType_addRef(S, t) == dpiGen__addRef(S, "OBJECT_TYPE", t)

\* release adjusting the count without the check of its handle
dpiObjectType_release_unchecked(S, t) ==
    [S |-> dpiGen__setRefCount(S, "OBJECT_TYPE", t, -1), rc |-> "SUCCESS"]

dpiObjectType_release(S, t) == dpiGen__release(S, "OBJECT_TYPE", t)

\* ------------------------------------------------------------ public calls
DescribeSteps == {"allocate", "connRef", "getSchema", "getName", "getTdoRef", "objectPin",
                  "handleAlloc", "describeAny", "getTopParam", "getTypeCode",
                  "getNumAttrs", "getCollElem", "populateTypeInfo"}
DescribeFaults(n) ==
    {NoFault} \cup [level : 0..(Depth(n) - 1), step : DescribeSteps]
InfoFaults == {NoFault, [level |-> 0, step |-> "ptrNull"]}
CreateFaults ==
    {NoFault} \cup [level : {0}, step : {"ptrNull", "allocate", "objectNew", "objectGetInd"}]
AttrFaults ==
    {NoFault}
      \cup [level : {0}, step : {"ptrNull", "handleAlloc", "describeAny", "getTopParam",
                                 "getAttrList"}]
      \cup [level : 1..MaxCap, step : {"paramGet", "allocate"}]

LastOf(op, h, n, f, rc) ==
    [op |-> op, h |-> h, name |-> n, fault |-> f, rc |-> rc, out |-> 0, cap |-> 0,
     array |-> NoArray, info |-> NoInfo]

\* Storage that was allocated and freed again within one call, before any
\* handle to it was returned, is available to the allocator again.
ReclaimArena(new, old) ==
    [i \in DOMAIN new |->
        IF new[i].tag = "FREED" /\ old[i].tag = "NONE" THEN old[i] ELSE new[i]]
Reclaim(S) ==
    [S EXCEPT !.types = ReclaimArena(@, types), !.objs = ReclaimArena(@, objs),
              !.attrs = ReclaimArena(@, Heap.attrs)]

RECURSIVE Sum(_, _)
Sum(g, D) == IF D = {} THEN 0 ELSE LET x == CHOOSE y \in D : TRUE IN g[x] + Sum(g, D \ {x})
HeldTypes == Sum(held.types, TypeIds)

\* handles the caller can present: slots that were handed out at some time
Handed(arena, ids) == {i \in ids : arena[i].tag # "NONE"}

\* the connection's type lookup: checks the connection, then describes
describeType(n, f) ==
    /\ FreeSlots(types, TypeIds) >= (IF n \in CyclicNames THEN 1 ELSE Depth(n))
    /\ HeldTypes < MaxHeld
    /\ IF dpiGen__startPublicFn(Heap, "CONN", TheConn) # "SUCCESS"
       THEN /\ Store(Heap)
            /\ last' = LastOf("describeType", 0, n, f, "InvalidHandle")
            /\ UNCHANGED held
       ELSE LET R == dpiObjectType__allocate(Heap, TheConn, n, "NAME", 0, f)
            IN  /\ Store(Reclaim(R.S))
                /\ last' = [LastOf("describeType", 0, n, f, R.rc) EXCEPT !.out = R.out]
                /\ held' = IF R.rc = "SUCCESS"
                           THEN [held EXCEPT !.types[R.out] = @ + 1]
                           ELSE held

addRef(t) ==
    /\ HeldTypes < MaxHeld
    /\ LET R == dpiObjectType_addRef(Heap, t)
       IN  /\ Store(R.S)
           /\ last' = LastOf("addRef", t, "NONE", NoFault, R.rc)
           /\ held' = IF R.rc = "SUCCESS" THEN [held EXCEPT !.types[t] = @ + 1] ELSE held

\* The caller releases a live handle only when it owns a reference to it;
\* a handle that is no longer live can be presented at any time.
release(t) ==
    /\ dpiGen__checkHandle(Heap, "OBJECT_TYPE", t) => held.types[t] > 0
    /\ LET R == dpiObjectType_release(Heap, t)
       IN  /\ Store(R.S)
           /\ last' = LastOf("release", t, "NONE", NoFault, R.rc)
           /\ held' = IF R.rc = "SUCCESS" THEN [held EXCEPT !.types[t] = @ - 1] ELSE held

getInfo(t, f) ==
    LET R == dpiObjectType_getInfo(Heap, t, f)
    IN  /\ Store(R.S)
        /\ last' = [LastOf("getInfo", t, "NONE", f, R.rc) EXCEPT !.info = R.info]
        /\ UNCHANGED held

getAttributes(t, numAttributes, f) ==
    LET R == dpiObjectType_getAttributes(Heap, t, numAttributes, NoArray, f)
    IN  /\ Store(Reclaim(R.S))
        /\ last' = [LastOf("getAttributes", t, "NONE", f, R.rc)
                       EXCEPT !.cap = numAttributes, !.array = R.array]
        /\ UNCHANGED held

createObject(t, f) ==
    /\ FreeSlots(objs, ObjIds) >= 1
    /\ LET R == dpiObjectType_createObject(Heap, t, f)
       IN  /\ Store(Reclaim(R.S))
           /\ last' = [LastOf("createObject", t, "NONE", f, R.rc) EXCEPT !.out = R.out]
           /\ held' = IF R.rc = "SUCCESS" THEN [held EXCEPT !.objs[R.out] = @ + 1] ELSE held

releaseObject(o) ==
    /\ dpiGen__checkHandle(Heap, "OBJECT", o) => held.objs[o] > 0
    /\ LET R == dpiGen__release(Heap, "OBJECT", o)
       IN  /\ Store(R.S)
           /\ last' = LastOf("releaseObject", o, "NONE", NoFault, R.rc)
           /\ held' = IF R.rc = "SUCCESS" THEN [held EXCEPT !.objs[o] = @ - 1] ELSE held

releaseConnection ==
    /\ dpiGen__checkHandle(Heap, "CONN", TheConn) => held.conn > 0
    /\ LET R == dpiGen__release(Heap, "CONN", TheConn)
       IN  /\ Store(R.S)
           /\ last' = LastOf("releaseConnection", 0, "NONE", NoFault, R.rc)
           /\ held' = IF R.rc = "SUCCESS" THEN [held EXCEPT !.conn = @ - 1] ELSE held

Init ==
    /\ conn = [tag |-> "CONN", refCount |-> 1]
    /\ types = [t \in TypeIds |-> NoType]
    /\ objs = [o \in ObjIds |-> NoObj]
    /\ attrs = [a \in AttrIds |-> NoAttr]
    /\ desc = [open |-> {}, bad |-> FALSE]
    /\ log = <<>>
    /\ held = [conn |-> 1, types |-> [t \in TypeIds |-> 0], objs |-> [o \in ObjIds |-> 0]]
    /\ last = LastOf("init", 0, "NONE", NoFault, "SUCCESS")

\* ----------------------------------------------------------- specifications
\* the types the lifecycle specifications look up: an object type with
\* attributes and a collection of collections of it
LifeNames == {"PERSON_T", "LIST_LIST_T"}
\* the types the attribute specification looks up
AttrNames == {"PERSON_T", "EMPTY_T", "LIST_LIST_T"}
HandedTypes == Handed(types, TypeIds)

\* Spec: the public calls on object types, the external service never failing
Next ==
    \/ \E n \in LifeNames : describeType(n, NoFault)
    \/ \E t \in HandedTypes : addRef(t)
    \/ \E t \in HandedTypes : release(t)
    \/ \E t \in HandedTypes : getInfo(t, NoFault)
    \/ \E t \in HandedTypes, cap \in 0..MaxCap : getAttributes(t, cap, NoFault)
    \/ \E t \in HandedTypes : createObject(t, NoFault)
Spec == Init /\ [][Next]_vars

\* SpecConn: object types, objects and the connection released in any order
NextConn ==
    \/ \E n \in LifeNames : describeType(n, NoFault)
    \/ \E t \in HandedTypes : addRef(t)
    \/ \E t \in HandedTypes : release(t)
    \/ \E t \in HandedTypes : createObject(t, NoFault)
    \/ \E o \in Handed(objs, ObjIds) : releaseObject(o)
    \/ releaseConnection
SpecConn == Init /\ [][NextConn]_vars

\* SpecDescribe: type lookups with a fault injected at any step of any level
NextDescribe ==
    \/ \E n \in TypeNames : \E f \in DescribeFaults(n) : describeType(n, f)
    \/ \E t \in HandedTypes : release(t)
SpecDescribe == Init /\ [][NextDescribe]_vars

\* SpecAttrs: lookups and attribute listings with a fault injected at any step
NextAttrs ==
    \/ \E n \in AttrNames : \E f \in DescribeFaults(n) : describeType(n, f)
    \/ \E t \in HandedTypes, cap \in 0..MaxCap, f \in AttrFaults : getAttributes(t, cap, f)
SpecAttrs == Init /\ [][NextAttrs]_vars

\* SpecCreate: objects created with a fault injected at any step
NextCreate ==
    \/ \E n \in LifeNames : describeType(n, NoFault)
    \/ \E t \in HandedTypes : addRef(t)
    \/ \E t \in HandedTypes, f \in CreateFaults : createObject(t, f)
    \/ \E t \in HandedTypes : release(t)
    \/ \E o \in Handed(objs, ObjIds) : releaseObject(o)
SpecCreate == Init /\ [][NextCreate]_vars

\* SpecInfo: object types of every kind looked up, shared, read and released
NextInfo ==
    \/ \E n \in TypeNames : describeType(n, NoFault)
    \/ \E t \in HandedTypes : addRef(t)
    \/ \E t \in HandedTypes, f \in InfoFaults : getInfo(t, f)
    \/ \E t \in HandedTypes : release(t)
SpecInfo == Init /\ [][NextInfo]_vars

\* SpecCyclic: lookups in a schema that holds a self-referential collection
NextCyclic ==
    \/ \E n \in LifeNames \cup CyclicNames : describeType(n, NoFault)
    \/ \E t \in HandedTypes : addRef(t)
    \/ \E t \in HandedTypes : getInfo(t, NoFault)
    \/ \E t \in HandedTypes : release(t)
SpecCyclic == Init /\ [][NextCyclic]_vars

\* ------------------------------------------------------------------ claims
\* events of the last call
Events(ev) == {i \in DOMAIN log : log[i].ev = ev}
EventsOn(ev, h) == {i \in DOMAIN log : log[i].ev = ev /\ log[i].h = h}
KindEventsOn(ev, kind, h) ==
    {i \in DOMAIN log : log[i].ev = ev /\ log[i].kind = kind /\ log[i].h = h}
Calls(name) == {i \in DOMAIN log : log[i].ev = "call" /\ log[i].name = name}
DescIds == 1..(MaxTypes + 1)
LiveTypes == {t \in TypeIds : types[t].tag = "OBJECT_TYPE"}

\* C1: when describeType or getAttributes has returned, on success or after a
\* fault at any step, every describe handle the call allocated was freed
\* exactly once, after it was allocated: none is open, none was freed twice.
C1_DescribeHandlesFreedOnce ==
    /\ desc.open = {}
    /\ ~desc.bad
    /\ \A d \in DescIds :
          /\ Cardinality(EventsOn("handleAlloc", d)) <= 1
          /\ Cardinality(EventsOn("handleFree", d)) = Cardinality(EventsOn("handleAlloc", d))
          /\ \A i \in EventsOn("handleAlloc", d), j \in EventsOn("handleFree", d) : i < j
    /\ \A i \in Events("handleAlloc") \cup Events("handleFree") : log[i].h \in DescIds
\* a describe of a collection of collections that fails in the innermost
\* describe, three describe handles allocated
C1_Witness ==
    /\ last.op = "describeType"
    /\ last.rc = "ExternalServiceError"
    /\ last.fault = [level |-> 2, step |-> "describeAny"]
    /\ Cardinality(Events("handleAlloc")) = 3

\* C2: a createObject on a valid object type either returns a new live
\* object that refers to the type, the type's reference count one higher, or
\* returns an error with every object type and every object slot as before
\* the call (the half built object was destroyed and its reference given
\* back).
C2_CreateObjectAllOrNothing ==
    [][(last'.op = "createObject" /\ types[last'.h].tag = "OBJECT_TYPE") =>
          IF last'.rc = "SUCCESS"
          THEN /\ last'.out \in ObjIds
               /\ objs[last'.out].tag = "NONE"
               /\ objs'[last'.out].tag = "OBJECT"
               /\ objs'[last'.out].refCount = 1
               /\ objs'[last'.out].type = last'.h
               /\ types'[last'.h].tag = "OBJECT_TYPE"
               /\ types'[last'.h].refCount = types[last'.h].refCount + 1
               /\ \A t \in TypeIds \ {last'.h} : types'[t] = types[t]
               /\ \A o \in ObjIds \ {last'.out} : objs'[o] = objs[o]
          ELSE /\ last'.out = 0
               /\ types' = types
               /\ objs' = objs]_vars
\* the null indicator fetch failed, and the object built so far was destroyed
C2_Witness ==
    /\ last.op = "createObject"
    /\ last.rc = "ExternalServiceError"
    /\ last.fault.step = "objectGetInd"
    /\ types[last.h].tag = "OBJECT_TYPE"
    /\ \E i \in Events("free") : log[i].kind = "OBJECT"
    /\ KindEventsOn("setRefCount", "OBJECT_TYPE", last.h) # {}

\* object types the step creates
Created == {t \in TypeIds : types[t].tag = "NONE" /\ types'[t].tag = "OBJECT_TYPE"}
TypeFrees == {i \in Events("free") : log[i].kind = "OBJECT_TYPE"}

\* C3: a describeType that fails, at whatever step of whatever nesting level,
\* returns no object type and leaves every object type slot and the
\* connection (its reference count) as before the call; one that succeeds
\* creates the object types of the type and of its nested element types,
\* each holding the connection, and the connection's reference count is
\* higher by one for each of them.
C3_DescribeAllOrNothing ==
    [][(last'.op = "describeType" /\ conn.tag = "CONN") =>
          IF last'.rc # "SUCCESS"
          THEN /\ last'.out = 0
               /\ types' = types
               /\ conn' = conn
          ELSE /\ last'.out \in Created
               /\ Cardinality(Created) = Depth(last'.name)
               /\ conn'.tag = "CONN"
               /\ conn'.refCount = conn.refCount + Cardinality(Created)
               /\ \A t \in Created : types'[t].conn = TheConn /\ types'[t].refCount = 1
               /\ \A t \in TypeIds \ Created : types'[t] = types[t]]_vars
\* the element type of the inner collection could not be resolved: the
\* object types of the outer and of the inner collection were destroyed
C3_Witness ==
    /\ last.op = "describeType"
    /\ last.rc = "ExternalServiceError"
    /\ last.fault = [level |-> 1, step |-> "populateTypeInfo"]
    /\ Cardinality(TypeFrees) = 2
    /\ Cardinality(KindEventsOn("setRefCount", "CONN", TheConn)) = 4

\* the last call was a getAttributes on a valid object type with an array
GotAttributes ==
    /\ last.op = "getAttributes"
    /\ types[last.h].tag = "OBJECT_TYPE"
    /\ last.fault.step # "ptrNull"
LiveAttrs == {a \in AttrIds : attrs[a].tag = "ATTR"}
ExternalAttrSteps == {"handleAlloc", "describeAny", "getTopParam", "getAttrList"}

\* C4: a getAttributes that fails leaves the caller's array as it was and no
\* attribute it created allocated.
C4_NoPartialOutput ==
    (GotAttributes /\ last.rc # "SUCCESS") => (last.array = NoArray /\ LiveAttrs = {})

\* C5 as claimed: on an object type without attributes getAttributes succeeds
\* as a no-op whatever the size of the array: no describe handle, no describe.
C5_NoOpForEveryCapacity ==
    (GotAttributes /\ types[last.h].numAttributes = 0) =>
        /\ last.rc = "SUCCESS"
        /\ Events("handleAlloc") = {}
        /\ Calls("describeAny") = {}
        /\ last.array = NoArray
\* C5 as amended: on an object type without attributes getAttributes writes
\* nothing and creates no attribute; it is a no-op that succeeds only when
\* the array size passed is 0.  With a larger array it allocates a describe
\* handle, describes the type and reads the attribute list, and it fails
\* with the service's error exactly when one of these calls fails.
C5_NoOpOnlyForEmptyArray ==
    (GotAttributes /\ types[last.h].numAttributes = 0) =>
        /\ last.array = NoArray
        /\ LiveAttrs = {}
        /\ last.cap = 0 => (last.rc = "SUCCESS" /\ log = <<>>)
        /\ last.cap > 0 =>
              /\ last.fault.step # "handleAlloc" <=> Events("handleAlloc") # {}
              /\ last.fault.step \notin {"handleAlloc"} => Calls("describeAny") # {}
              /\ last.rc = IF last.fault.level = 0 /\ last.fault.step \in ExternalAttrSteps
                           THEN "ExternalServiceError" ELSE "SUCCESS"
\* an object type without attributes, an array of one entry or more, and
\* the describe failing
C5_Witness ==
    /\ GotAttributes
    /\ types[last.h].numAttributes = 0
    /\ last.cap > 0
    /\ last.fault.step = "describeAny"
    /\ last.rc = "ExternalServiceError"
    /\ Events("handleFree") # {}

\* C6: getAttributes with an array smaller than the attribute count returns
\* ArraySizeTooSmall, writes nothing and allocates no describe handle; with
\* an empty array on an object type without attributes it succeeds and
\* writes nothing.
C6_ArraySizeChecked ==
    GotAttributes =>
        /\ last.cap < types[last.h].numAttributes =>
              /\ last.rc = "ArraySizeTooSmall"
              /\ last.array = NoArray
              /\ LiveAttrs = {}
              /\ log = <<>>
              /\ desc.open = {}
        /\ last.rc = "ArraySizeTooSmall" => last.cap < types[last.h].numAttributes
        /\ (last.cap = 0 /\ types[last.h].numAttributes = 0) =>
              /\ last.rc = "SUCCESS"
              /\ last.array = NoArray
              /\ LiveAttrs = {}
\* an array of one entry for an object type with two attributes
C6_Witness ==
    /\ GotAttributes
    /\ last.cap = 1
    /\ types[last.h].numAttributes = 2
    /\ last.rc = "ArraySizeTooSmall"

\* C7: the connection is live as long as an object type derived from it is:
\* every live object type, nested ones included, holds the connection, and
\* the connection's reference count is the caller's references plus one for
\* each live object type, so it is at least their number.
C7_ConnectionOutlivesTypes ==
    /\ \A t \in LiveTypes : types[t].conn = TheConn
    /\ LiveTypes # {} => conn.tag = "CONN"
    /\ conn.refCount >= Cardinality(LiveTypes)
    /\ conn.refCount = held.conn + Cardinality(LiveTypes)
    /\ conn.tag = "CONN" <=> conn.refCount > 0
\* the caller has released the connection, which three object types (a
\* collection, its element collection and that one's element) keep alive
C7_Witness ==
    /\ held.conn = 0
    /\ last.op = "releaseConnection"
    /\ last.rc = "SUCCESS"
    /\ Cardinality(LiveTypes) = 3
    /\ conn.tag = "CONN"
    /\ \E t \in LiveTypes : types[t].elementTypeInfo.objectType \in LiveTypes

TypeOps == {"addRef", "release", "getInfo", "getAttributes", "createObject"}
\* a call on the object type handle that the call before released
AfterRelease ==
    /\ last.op = "release"
    /\ last.rc = "SUCCESS"
    /\ last'.op \in TypeOps
    /\ last'.h = last.h

\* C8 as claimed: after a release of a valid object type handle, any call on
\* that handle fails with InvalidHandle.
C8_ReleaseInvalidatesHandle ==
    [][AfterRelease => last'.rc = "InvalidHandle"]_vars
\* C8 as amended: after a release that dropped the last reference of an
\* object type, any call on that handle (addRef, release, getInfo,
\* getAttributes, createObject) fails with InvalidHandle and changes
\* nothing; after a release that left references, the handle is still valid
\* and no call on it fails with InvalidHandle.
C8_LastReleaseInvalidatesHandle ==
    [][AfterRelease =>
          IF types[last.h].tag # "OBJECT_TYPE"
          THEN /\ last'.rc = "InvalidHandle"
               /\ types' = types
               /\ objs' = objs
               /\ conn' = conn
               /\ log' = <<>>
          ELSE last'.rc # "InvalidHandle"]_vars
\* createObject on a handle whose last reference was released
C8_Witness ==
    /\ last.op = "createObject"
    /\ last.rc = "InvalidHandle"
    /\ types[last.h].tag = "FREED"
    /\ held.types[last.h] = 0

\* C9: no reference count is ever negative, a destructor runs at most once
\* in a call and only on a handle that was live, and a release of an object
\* type that was destroyed returns InvalidHandle without adjusting any count
\* and without running a destructor.
C9_RefCountNeverNegative ==
    [][/\ conn'.refCount >= 0
       /\ \A t \in TypeIds : types'[t].refCount >= 0
       /\ \A o \in ObjIds : objs'[o].refCount >= 0
       /\ \A t \in TypeIds :
             LET frees == {i \in DOMAIN log' : log'[i].ev = "free"
                              /\ log'[i].kind = "OBJECT_TYPE" /\ log'[i].h = t}
             IN  /\ Cardinality(frees) <= 1
                 /\ frees # {} => types[t].tag \in {"OBJECT_TYPE", "NONE"}
       /\ (last'.op = "release" /\ types[last'.h].tag = "FREED") =>
             /\ last'.rc = "InvalidHandle"
             /\ types' = types
             /\ conn' = conn
             /\ objs' = objs
             /\ log' = <<>>]_vars
\* the second release of an object type that was created and released
C9_Witness ==
    /\ last.op = "release"
    /\ last.rc = "InvalidHandle"
    /\ types[last.h].tag = "FREED"
    /\ types[last.h].refCount = 0

\* a release that dropped the last reference of object type last'.h
ReleasedToZero ==
    /\ last'.op = "release"
    /\ last'.rc = "SUCCESS"
    /\ types[last'.h].tag = "OBJECT_TYPE"
    /\ types'[last'.h].tag = "FREED"
\* the object types the call destroyed
Destroyed == {t \in TypeIds : types[t].tag = "OBJECT_TYPE" /\ types'[t].tag = "FREED"}
\* the decrements the call made on a handle
DecrementsOf(kind, h) ==
    {i \in DOMAIN log' : /\ log'[i].ev = "setRefCount"
                         /\ log'[i].kind = kind
                         /\ log'[i].h = h
                         /\ log'[i].delta = -1}
\* every live object type of a collection of objects references the live
\* object type of its element, resolved with it
ResolvesInner ==
    \A t \in TypeIds :
        (types'[t].tag = "OBJECT_TYPE" /\ Catalog(types'[t].name).elemKind = "OBJECT") =>
            LET inner == types'[t].elementTypeInfo.objectType
            IN  /\ inner \in TypeIds \ {t}
                /\ types'[inner].tag = "OBJECT_TYPE"
                /\ types'[inner].refCount >= 1
                /\ types'[inner].name = Catalog(types'[t].name).elemType
\* what a release to zero does to the inner object type
InnerReleasedOnce ==
    ReleasedToZero =>
        LET inner == types[last'.h].elementTypeInfo.objectType
        IN  IF inner # 0
            THEN /\ Cardinality(DecrementsOf("OBJECT_TYPE", inner)) = 1
                 /\ types'[inner].refCount = types[inner].refCount - 1
            ELSE /\ \A u \in TypeIds \ {last'.h} : types'[u] = types[u]
                 /\ \A u \in TypeIds \ {last'.h} : DecrementsOf("OBJECT_TYPE", u) = {}

\* C10 as claimed: describing a collection of collections resolves the inner
\* object type with the outer; releasing the outer to zero decrements the
\* inner object type's reference count exactly once and the connection's
\* reference count exactly once; an object type without an element object
\* type decrements no other object type.
C10_NestedReleaseOnce ==
    [][/\ ResolvesInner
       /\ InnerReleasedOnce
       /\ ReleasedToZero =>
             /\ conn'.refCount = conn.refCount - 1
             /\ Cardinality(DecrementsOf("CONN", TheConn)) = 1]_vars
\* C10 as amended: describing a collection of collections resolves the inner
\* object type with the outer; releasing the outer to zero decrements the
\* inner object type's reference count exactly once, and decrements the
\* connection's reference count once for every object type the release
\* destroys: the outer, and each inner object type whose count thereby
\* reaches zero; an object type without an element object type decrements
\* no other object type and the connection exactly once.
C10_NestedReleasePerDestroyed ==
    [][/\ ResolvesInner
       /\ InnerReleasedOnce
       /\ ReleasedToZero =>
             /\ last'.h \in Destroyed
             /\ conn'.refCount = conn.refCount - Cardinality(Destroyed)
             /\ Cardinality(DecrementsOf("CONN", TheConn)) = Cardinality(Destroyed)
             /\ types[last'.h].elementTypeInfo.objectType = 0 => Destroyed = {last'.h}]_vars
\* the release of a collection of collections that destroyed it and the two
\* object types nested in it, the connection surviving
C10_Witness ==
    /\ last.op = "release"
    /\ last.rc = "SUCCESS"
    /\ Cardinality(TypeFrees) = 3
    /\ Cardinality(KindEventsOn("setRefCount", "CONN", TheConn)) = 3
    /\ conn.tag = "CONN"

\* the element type information of an object type that has none
NoElementTypeInfo == NoType.elementTypeInfo

\* C11: every object type a describeType returned or resolved has
\* isCollection true exactly when the type code read from the describe is
\* the collection code, and its elementTypeInfo populated exactly when
\* isCollection is true; the type code is the one the describe service
\* reports for the type.
C11_CollectionIffElementTypeInfo ==
    \A t \in LiveTypes :
        /\ types[t].typeCode = Catalog(types[t].name).typeCode
        /\ types[t].isCollection <=> types[t].typeCode = DPI_SQLT_NCO
        /\ types[t].elementTypeInfo # NoElementTypeInfo <=> types[t].isCollection
        /\ types[t].elementTypeInfo.oracleTypeNum = Catalog(types[t].name).elemKind
        /\ types[t].elementTypeInfo.objectType # 0 <=>
               types[t].elementTypeInfo.oracleTypeNum = "OBJECT"
\* a collection of numbers and an object type that is no collection, both
\* described with success
C11_Witness ==
    /\ last.op = "describeType"
    /\ last.rc = "SUCCESS"
    /\ types[last.out].isCollection
    /\ types[last.out].elementTypeInfo.oracleTypeNum = "NUMBER"
    /\ \E u \in LiveTypes : ~types[u].isCollection /\ types[u].elementTypeInfo = NoElementTypeInfo

\* the positions of the attribute list read by the call, in the order read
RECURSIVE ParamGets(_)
ParamGets(n) ==
    IF n = 0 THEN <<>>
    ELSE IF log[n].ev = "call" /\ log[n].name = "paramGet"
         THEN Append(ParamGets(n - 1), log[n].arg)
         ELSE ParamGets(n - 1)

\* C12: a successful getAttributes on an object type with N > 0 attributes
\* and an array of N entries or more writes exactly the indices 0..N-1,
\* index i holding a live attribute of that object type built from the
\* attribute at position i+1 of the attribute list, the positions 1..N being
\* read in that order, one attribute each; every index from N on is as the
\* caller passed it.
C12_AttributesInDeclarationOrder ==
    (GotAttributes /\ last.rc = "SUCCESS" /\ types[last.h].numAttributes > 0) =>
        LET N == types[last.h].numAttributes
        IN  /\ last.cap >= N
            /\ \A i \in DOMAIN last.array :
                  IF i < N
                  THEN /\ last.array[i] \in LiveAttrs
                       /\ attrs[last.array[i]].pos = i + 1
                       /\ attrs[last.array[i]].belongsToType = last.h
                  ELSE last.array[i] = NoArray[i]
            /\ \A i, j \in 0..(N - 1) : last.array[i] = last.array[j] => i = j
            /\ Cardinality(LiveAttrs) = N
            /\ ParamGets(Len(log)) = [p \in 1..N |-> p]
\* two attributes returned in an array of three entries
C12_Witness ==
    /\ GotAttributes
    /\ last.rc = "SUCCESS"
    /\ types[last.h].numAttributes = 2
    /\ last.cap = 3
    /\ last.array[0] # 0
    /\ last.array[1] # 0
    /\ last.array[2] = 0

\* getInfo changes nothing: no handle, no count, no field, no describe
\* handle, and it makes no call
GetInfoFrame ==
    /\ types' = types
    /\ conn' = conn
    /\ objs' = objs
    /\ desc' = desc
    /\ log' = <<>>
\* the snapshot returned equals the object type's fields
GetInfoSnapshot ==
    /\ last'.rc = "SUCCESS"
    /\ last'.info.name = types[last'.h].name
    /\ last'.info.schema = types[last'.h].schema
    /\ last'.info.isCollection = types[last'.h].isCollection
    /\ last'.info.elementTypeInfo = types[last'.h].elementTypeInfo
    /\ last'.info.numAttributes = types[last'.h].numAttributes

\* C13 as claimed: getInfo has no side effects and fails only if the handle
\* is invalid; on a valid object type it returns a snapshot equal to the
\* object type's fields.
C13_GetInfoFailsOnlyOnInvalidHandle ==
    [][last'.op = "getInfo" =>
          /\ GetInfoFrame
          /\ IF types[last'.h].tag # "OBJECT_TYPE"
             THEN last'.rc = "InvalidHandle"
             ELSE GetInfoSnapshot]_vars
\* C13 as amended: getInfo has no side effects; it fails if the handle is
\* invalid (InvalidHandle) or, on a valid handle, if the caller passes no
\* structure to receive the snapshot, and in no other case; otherwise it
\* returns a snapshot equal to the object type's fields.  Every reference
\* count and every field of every object type is unchanged in all cases.
C13_GetInfoReadOnly ==
    [][last'.op = "getInfo" =>
          /\ GetInfoFrame
          /\ IF types[last'.h].tag # "OBJECT_TYPE"
             THEN last'.rc = "InvalidHandle"
             ELSE IF last'.fault.step = "ptrNull"
                  THEN last'.rc = "NullPointer" /\ last'.info = NoInfo
                  ELSE GetInfoSnapshot]_vars
\* the snapshot of a collection of collections, shared by two holders
C13_Witness ==
    /\ last.op = "getInfo"
    /\ last.rc = "SUCCESS"
    /\ last.info.name = "LIST_LIST_T"
    /\ last.info.isCollection
    /\ last.info.elementTypeInfo.objectType \in LiveTypes
    /\ types[last.h].refCount = 2
    /\ types[last.info.elementTypeInfo.objectType].refCount = 1

\* the type definitions the call described, one entry per describeAny made
\* by dpiObjectType__describe
RECURSIVE Described(_)
Described(n) ==
    IF n = 0 THEN <<>>
    ELSE IF log[n].ev = "call" /\ log[n].name = "describeAny"
         THEN Append(Described(n - 1), log[n].tdo)
         ELSE Described(n - 1)

\* C14: a describeType that no external call fails resolves no type
\* definition twice, also in a schema whose collection element chain is
\* self-referential: the nesting is bounded by the schema, not by the
\* storage left; on a finite chain of depth d it succeeds having created
\* exactly d+1 object types.
C14_RecursionGuarded ==
    (last.op = "describeType" /\ last.fault = NoFault) =>
        LET D == Described(Len(log))
        IN  /\ \A i, j \in DOMAIN D : D[i] = D[j] => i = j
            /\ last.name \notin CyclicNames =>
                  /\ last.rc = "SUCCESS"
                  /\ Len(D) = Depth(last.name)
                  /\ Cardinality(Calls("dpiGen__allocate")) = Depth(last.name)

\* the steps of the destructor of object type t in the call: where it gave
\* back the reference or the string held in a field
FreeSteps(field, t) ==
    {i \in DOMAIN log' : /\ log'[i].ev \in {"freeRef", "freeString"}
                         /\ log'[i].field = field
                         /\ log'[i].h = t}
\* where the call freed the storage of object type t
StorageFrees(t) ==
    {i \in DOMAIN log' : log'[i].ev = "free" /\ log'[i].kind = "OBJECT_TYPE" /\ log'[i].h = t}
\* the call made the external call name for object type t
CalledFor(name, t) ==
    \E i \in DOMAIN log' : log'[i].ev = "call" /\ log'[i].name = name /\ log'[i].arg = t
\* Field field of object type t was set when its destructor ran.  An object
\* type that was live before the call has the fields of the state before; one
\* the call created and destroyed has those its initialization reached.
FieldSet(field, t) ==
    IF types[t].tag = "OBJECT_TYPE"
    THEN CASE field = "conn" -> types[t].conn # "NULL"
           [] field = "elementType" -> types[t].elementTypeInfo.objectType # 0
           [] field = "schema" -> types[t].schema # "NULL"
           [] field = "name" -> types[t].name # "NULL"
    ELSE CASE field = "conn" -> CalledFor("getSchema", t)
           [] field = "elementType" -> FALSE
           [] field = "schema" -> CalledFor("getName", t)
           [] field = "name" -> CalledFor("getTdoRef", t)
\* every step of field a comes before every step of field b and the
\* freeing of the storage comes last
StepsInOrder(t, order) ==
    /\ \A a, b \in DOMAIN order :
          a < b => \A i \in FreeSteps(order[a], t), j \in FreeSteps(order[b], t) : i < j
    /\ \A a \in DOMAIN order :
          \A i \in FreeSteps(order[a], t), j \in StorageFrees(t) : i < j
\* each release of the destructor occurs once for a field that was set and
\* not at all for one that was not; the storage is freed once
StepsOncePerField(t) ==
    /\ Cardinality(StorageFrees(t)) = 1
    /\ \A field \in {"conn", "elementType", "schema", "name"} :
          Cardinality(FreeSteps(field, t)) = IF FieldSet(field, t) THEN 1 ELSE 0

\* C15 as claimed: the destructor of an object type releases, in this
\* order, the element object type reference, the connection reference, the
\* schema and name strings, then frees the storage; each once, none for a
\* field that was never set.
C15_FreeOrderElementFirst ==
    [][\A t \in TypeIds :
          StorageFrees(t) # {} =>
              /\ StepsOncePerField(t)
              /\ StepsInOrder(t, <<"elementType", "conn", "schema", "name">>)]_vars
\* C15 as amended: the destructor of an object type releases, in this
\* order, the connection reference, the element object type reference (if
\* any), the schema and name strings, then frees the storage; each once,
\* none for a field that was never set.
C15_FreeOrderConnFirst ==
    [][\A t \in TypeIds :
          StorageFrees(t) # {} =>
              /\ StepsOncePerField(t)
              /\ StepsInOrder(t, <<"conn", "elementType", "schema", "name">>)]_vars
\* the release of a collection of objects: its destructor gave back the
\* connection, then the element object type, then the two strings, then
\* freed the storage
C15_Witness ==
    /\ last.op = "release"
    /\ last.rc = "SUCCESS"
    /\ \E i, j, k, l, m \in DOMAIN log :
          /\ i < j /\ j < k /\ k < l /\ l < m
          /\ log[i].ev = "freeRef" /\ log[i].field = "conn" /\ log[i].h = last.h
          /\ log[j].ev = "freeRef" /\ log[j].field = "elementType" /\ log[j].h = last.h
          /\ log[k].ev = "freeString" /\ log[k].field = "schema" /\ log[k].h = last.h
          /\ log[l].ev = "freeString" /\ log[l].field = "name" /\ log[l].h = last.h
          /\ log[m].ev = "free" /\ log[m].kind = "OBJECT_TYPE" /\ log[m].h = last.h

LiveObjs == {o \in ObjIds : objs[o].tag = "OBJECT"}
\* the counted references on object type t: the caller's, one for each live
\* object of the type, one for each live object type whose element it is
HoldersOf(t) ==
    held.types[t]
      + Cardinality({o \in LiveObjs : objs[o].type = t})
      + Cardinality({u \in LiveTypes : types[u].elementTypeInfo.objectType = t})

\* C16: the object type of every live object is live; the reference count of
\* a live object type is the number of its holders, each live object of the
\* type counting for exactly one; a step that destroys an object drops the
\* count of its object type by one and destroys the object type only when
\* the object held its last reference; no other step takes that reference
\* away from a live object.
C16_TypeOutlivesObjects ==
    [][/\ (\A o \in LiveObjs : objs[o].type \in LiveTypes)'
       /\ (\A t \in LiveTypes : types[t].refCount = HoldersOf(t))'
       /\ \A o \in ObjIds :
             (objs[o].tag = "OBJECT" /\ objs'[o].tag # "OBJECT") =>
                 LET t == objs[o].type
                 IN  /\ last'.op = "releaseObject"
                     /\ types'[t].refCount = types[t].refCount - 1
                     /\ types[t].refCount > 1 => types'[t].tag = "OBJECT_TYPE"
                     /\ types[t].refCount = 1 => types'[t].tag = "FREED"]_vars
\* the caller released its references on an object type and the object
\* created from it keeps it alive
C16_Witness ==
    /\ last.op = "release"
    /\ last.rc = "SUCCESS"
    /\ held.types[last.h] = 0
    /\ types[last.h].tag = "OBJECT_TYPE"
    /\ types[last.h].refCount = 1
    /\ \E o \in LiveObjs : objs[o].type = last.h

\* the external calls of a type lookup on one object type, in the order of
\* dpiObjectType__init and dpiObjectType__describe
DescribeOrder ==
    <<"getSchema", "getName", "getTdoRef", "objectPin", "describeAny", "getTopParam",
      "getTypeCode", "getNumAttrs", "getCollElem", "populateTypeInfo">>
DescribeOrderNames == {DescribeOrder[i] : i \in DOMAIN DescribeOrder}
\* the call made in the log for a step of DescribeSteps
CallNameOf(step) ==
    CASE step = "allocate" -> "dpiGen__allocate"
      [] step = "connRef" -> "connRefFailed"
      [] step = "handleAlloc" -> "handleAllocFailed"
      [] OTHER -> step
\* the names of the calls of DescribeOrder the last call made for object
\* type t, in the order made
RECURSIVE StepsFor(_, _)
StepsFor(t, n) ==
    IF n = 0 THEN <<>>
    ELSE IF /\ log[n].ev = "call"
            /\ log[n].name \in DescribeOrderNames
            /\ log[n].arg = t
         THEN Append(StepsFor(t, n - 1), log[n].name)
         ELSE StepsFor(t, n - 1)
IsPrefix(p, q) == Len(p) <= Len(q) /\ \A i \in DOMAIN p : p[i] = q[i]
AllCalls == {i \in DOMAIN log : log[i].ev = "call"}
RECURSIVE NameAtLevel(_, _)
\* the type described at nesting level lvl of a lookup of n
NameAtLevel(n, lvl) == IF lvl = 0 THEN n ELSE NameAtLevel(Catalog(n).elemType, lvl - 1)
\* the describeAny calls of the last call, in the order made
DescribeAnys == {i \in DOMAIN log : log[i].ev = "call" /\ log[i].name = "describeAny"}
\* the steps a successful lookup makes for a type
FullSteps(n) ==
    IF Catalog(n).typeCode = DPI_SQLT_NCO THEN DescribeOrder ELSE SubSeq(DescribeOrder, 1, 8)

\* C17: in a describeType the calls for each object type are made in the
\* order schema, name, TDO reference, pin, describeAny, top parameter, type
\* code, attribute count (then, for a collection, element parameter and
\* element type), a call being made only after all before it; the
\* describeAny is made on the definition pinned for the type named, with a
\* describe handle allocated after the pin, not used by another describeAny
\* and not yet freed; a call that fails is the last call of the operation,
\* which then fails; a lookup that succeeds made every call for every level.
C17_DescribeStepOrder ==
    (last.op = "describeType" /\ last.rc # "InvalidHandle") =>
        /\ \A t \in TypeIds : IsPrefix(StepsFor(t, Len(log)), DescribeOrder)
        /\ \A i \in DescribeAnys :
              LET lvl == Cardinality({j \in DescribeAnys : j < i})
                  pin == {j \in 1..(i - 1) : /\ log[j].ev = "call"
                                             /\ log[j].name = "objectPin"
                                             /\ log[j].arg = log[i].arg}
              IN  /\ log[i].tdo = NameAtLevel(last.name, lvl)
                  /\ pin # {}
                  /\ \E a \in {j \in DOMAIN log : log[j].ev = "handleAlloc"} :
                        /\ log[a].h = log[i].handle
                        /\ a < i
                        /\ \A p \in pin : p < a
                  /\ \A j \in 1..(i - 1) :
                        log[j].ev = "handleFree" => log[j].h # log[i].handle
                  /\ \A j \in DescribeAnys : j # i => log[j].handle # log[i].handle
        /\ LET made == {i \in AllCalls : log[i].name = CallNameOf(last.fault.step)}
           IN  (last.fault # NoFault /\ Cardinality(made) > last.fault.level) =>
                   /\ last.rc # "SUCCESS"
                   /\ Cardinality(made) = last.fault.level + 1
                   /\ \A i \in AllCalls : \E j \in made : i <= j
        /\ last.rc = "SUCCESS" =>
              /\ Cardinality(DescribeAnys) = Depth(last.name)
              /\ \A i \in DescribeAnys :
                    StepsFor(log[i].arg, Len(log)) = FullSteps(log[i].tdo)
\* the read of the type code of the inner collection failed: no attribute
\* count, no element parameter was read after it
C17_Witness ==
    /\ last.op = "describeType"
    /\ last.name = "PERSON_LIST_T"
    /\ last.fault = [level |-> 1, step |-> "getTypeCode"]
    /\ last.rc = "ExternalServiceError"
    /\ Cardinality(DescribeAnys) = 2
    /\ Cardinality(Calls("getNumAttrs")) = 1
    /\ Cardinality(Calls("getTypeCode")) = 2

====
